---- MODULE Spec2Model ----
(***************************************************************************)
(* Chain parameters of Bitmark (src/chainparams.h, src/chainparams.cpp):   *)
(* the three statically constructed parameter objects mainParams,          *)
(* testNetParams and regTestParams, the process-wide pointer               *)
(* pCurrentParams, and the functions Params, SelectParams and              *)
(* SelectParamsFromCommandLine.                                            *)
(*                                                                         *)
(* Representation.                                                         *)
(*  - A uint256 that is only compared for equality (a block hash, a Merkle *)
(*    root) is the text of its hexadecimal literal.                        *)
(*  - A uint256 that is computed with (the proof-of-work limit) is its 32  *)
(*    bytes, least significant first.                                      *)
(*  - CBlock::GetHash and CBlock::BuildMerkleTree are cryptographic hash   *)
(*    functions: deterministic, value unknown to this model.  Each is a    *)
(*    memo table (hashMemo, txMemo): the first call on an input draws any  *)
(*    digest of the digest set, every later call on that input returns the *)
(*    same digest.                                                         *)
(*  - assert() is compiled in: a failed assert terminates the process      *)
(*    (pc = "aborted"), whose state is as the last completed step left it. *)
(***************************************************************************)
EXTENDS Integers, Sequences, FiniteSets, TLC

VARIABLES
    pc,              \* position of the process: the static object under
                     \* construction, "main" once static initialisation is
                     \* over, "aborted" after a failed assert
    params,          \* the three static objects, by name
    pCurrentParams,  \* static CChainParams *pCurrentParams
    txMemo,          \* BuildMerkleTree: <<vtx, root>> pairs computed so far
    hashMemo,        \* GetHash: <<header, hash>> pairs computed so far
    lastCall,        \* history: the last call made after startup, its
                     \* arguments and what it returned
    lastSelected     \* history: the network of the last SelectParams call
                     \* that completed, NoNetwork before the first

vars == <<pc, params, pCurrentParams, txMemo, hashMemo, lastCall, lastSelected>>

(***************************************************************************)
(* Bounds of the model.                                                    *)
(***************************************************************************)
\* GetTime() returns a value from ClockStart to ClockStart + MaxTick.
MaxTick == 0
\* Block heights queried are -MaxHeight .. MaxHeight.
MaxHeight == 2

(***************************************************************************)
(* enum CChainParams::Network and enum CChainParams::Base58Type.           *)
(***************************************************************************)
MAIN == 0
TESTNET == 1
REGTEST == 2
MAX_NETWORK_TYPES == 3

PUBKEY_ADDRESS == 0
SCRIPT_ADDRESS == 1
SECRET_KEY == 2
EXT_PUBLIC_KEY == 3
EXT_SECRET_KEY == 4
MAX_BASE58_TYPES == 5

\* lastSelected before any SelectParams call.
NoNetwork == 0 - 1

Objects == {"mainParams", "testNetParams", "regTestParams"}

\* The most derived class of each static object.
ClassOf(o) ==
    CASE o = "mainParams"    -> "CMainParams"
      [] o = "testNetParams" -> "CTestNetParams"
      [] o = "regTestParams" -> "CRegTestParams"

(***************************************************************************)
(* uint256 arithmetic on 32 bytes, least significant first.                *)
(***************************************************************************)
Width256 == 256 \div 8

\* uint256(0)
Uint256Zero == [i \in 1..Width256 |-> 0]

\* operator~
Not256(a) == [i \in 1..Width256 |-> 255 - a[i]]

\* operator>>: whole bytes move down by shift \div 8, the rest of the shift
\* takes the low bits of the next byte up.
ShiftRight256(a, shift) ==
    LET k == shift \div 8
        s == shift % 8
    IN  [i \in 1..Width256 |->
            (IF i + k <= Width256 THEN a[i + k] \div (2 ^ s) ELSE 0)
          + (IF s # 0 /\ i + k + 1 <= Width256
                THEN (a[i + k + 1] * (2 ^ (8 - s))) % 256
                ELSE 0)]

\* a < b, compared from the most significant byte down.
Less256(a, b) ==
    \E i \in 1..Width256 :
        /\ a[i] < b[i]
        /\ \A j \in (i + 1)..Width256 : a[j] = b[j]

\* CBigNum(uint256): the same non-negative value.
CBigNum(u) == u

(***************************************************************************)
(* Hash memo tables.                                                       *)
(***************************************************************************)
\* What a hash can return on preimage x: what it returned on x before, or,
\* on a first call, any digest of all.
Digests(memo, x, all) ==
    IF \E q \in memo : q[1] = x
        THEN {q[2] : q \in {r \in memo : r[1] = x}}
        ELSE all

Remember(memo, x, d) == memo \cup {<<x, d>>}

\* The 80-byte header GetHash hashes.
Header(b) ==
    [nVersion       |-> b.nVersion,
     hashPrevBlock  |-> b.hashPrevBlock,
     hashMerkleRoot |-> b.hashMerkleRoot,
     nTime          |-> b.nTime,
     nBits          |-> b.nBits,
     nNonce         |-> b.nNonce]

\* The hash literals the constructors assert against.
MainGenesisHash ==
    "0xc1fb746e87e89ae75bdec2ef0639a1f6786744639ce3d0ece1dcf979b79137cb"
MainMerkleRoot ==
    "0xd4715adf41222fae3d4bf41af30c675bc27228233d0f3cfd4ae0ae1d3e760ba8"
TestGenesisHash ==
    "0x572f069d470350b8facc52a0866671d2d3071230e4df45d193394ae153fa891d"
RegTestGenesisHash ==
    "0x168329a349fc93768bfb02e536bbe1e1847d77a65764564552122fa9268d8841"

\* A digest that is none of the literals.
OtherDigest == "0x(any other value)"

\* What GetHash can return, and what BuildMerkleTree can return.
HashVals == {MainGenesisHash, TestGenesisHash, RegTestGenesisHash, OtherDigest}
MerkleVals == {MainMerkleRoot, OtherDigest}

(***************************************************************************)
(* The parameter objects.                                                  *)
(***************************************************************************)
\* unsigned int pnSeed[]: each word by its four bytes, high byte first.
pnSeed == << <<172, 31, 31, 10>>, <<174, 36, 9, 130>>, <<37, 59, 19, 89>> >>

ARRAYLEN(array) == Len(array)

\* Conversion of an int to unsigned char.
Byte(x) == x % 256

\* boost::assign::list_of(...) converted to vector<unsigned char>.
list_of(values) == [i \in 1..Len(values) |-> Byte(values[i])]

\* A static object before its constructor body runs: static storage is
\* zero-initialised, then CChainParams() runs the default member
\* initialisers and the members' default constructors.  Nothing sets
\* nForkHeight2 or nStartAuxPow afterwards.  genesis is the null block;
\* every header field of it is assigned by CMainParams().
\* hConstructed and hMerkleAsserted are history fields: whether the most
\* derived constructor has completed, and the literal that the last assert
\* on genesis.hashMerkleRoot compared it with ("" when none has run).
CChainParams_ctor ==
    [hashGenesisBlock        |-> "0",
     pchMessageStart         |-> <<0, 0, 0, 0>>,
     vAlertPubKey            |-> "",
     nDefaultPort            |-> 0,
     nRPCPort                |-> 0,
     bnProofOfWorkLimit      |-> CBigNum(Uint256Zero),
     nSubsidyHalvingInterval |-> 0,
     strDataDir              |-> "",
     vSeeds                  |-> << >>,
     base58Prefixes          |-> [t \in 0..(MAX_BASE58_TYPES - 1) |-> << >>],
     fStrictChainId          |-> FALSE,
     nAuxpowChainId          |-> 0,
     nStartAuxPow            |-> 0,
     nEquihashN              |-> 0,
     nEquihashK              |-> 0,
     fMineBlocksOnDemand     |-> TRUE,
     nForkHeight2            |-> 0,
     genesis                 |-> [vtx            |-> << >>,
                                  nVersion       |-> 0,
                                  hashPrevBlock  |-> "0",
                                  hashMerkleRoot |-> "0",
                                  nTime          |-> 0,
                                  nBits          |-> 0,
                                  nNonce         |-> 0],
     vFixedSeeds             |-> << >>,
     hSeedNow                |-> << >>,
     hMerkleAsserted         |-> "",
     hConstructed            |-> FALSE]

\* The coinbase transaction both genesis blocks are built from.
GenesisTx(pszTimestamp) ==
    [vin  |-> << [scriptSig |-> <<486604799, 4, pszTimestamp>>] >>,
     vout |-> << [nValue       |-> [times |-> 20, unit |-> "COIN"],
                  scriptPubKey |-> <<"04f88a76429dad346a10ecb5d36fcbf50bc2e009870e20c1a6df8db743e0b994afc1f91e079be8acc380b0ee7765519906e3d781519e9db48259f64160104939d8",
                                     "OP_CHECKSIG">>] >>]

nOneWeek == 7 * 24 * 60 * 60

\* genesis.nTime of the test network, and the clock when the process starts:
\* the program is no older than its newest genesis block.
TestGenesisTime == 1509891419
ClockStart == TestGenesisTime

\* A seed time that is only the random part behind the clock.
SeedTime_noWeek(now, rand) == now - rand

\* addr.nTime of one fixed seed, from the values GetTime() and GetRand()
\* returned.
SeedTime(now, rand) == now - rand - nOneWeek

\* The values GetRand(nMax) is drawn from: the two ends of its range
\* 0 .. nMax-1, between which SeedTime is monotonic.
GetRand(nMax) == {0, nMax - 1}

\* The values GetTime() can return.  It reads the system clock, which can
\* be set back between two calls.
GetTime == ClockStart..(ClockStart + MaxTick)

\* One (GetTime(), GetRand(nOneWeek)) pair per entry of pnSeed.
SeedDraws == [1..ARRAYLEN(pnSeed) -> GetTime \X GetRand(nOneWeek)]

\* The loop that converts pnSeed into address objects.
FixedSeedsFrom(nPort, draws) ==
    [i \in 1..ARRAYLEN(pnSeed) |->
        [ip    |-> pnSeed[i],
         port  |-> nPort,
         nTime |-> SeedTime(draws[i][1], draws[i][2])]]

\* The state a constructor body runs on: the object and the memo tables;
\* abort once an assert has failed.
Context(obj, tx, blk) ==
    [obj |-> obj, tx |-> tx, blk |-> blk, abort |-> FALSE]

\* What genesis.BuildMerkleTree() and genesis.GetHash() can return.
BuildMerkleTree(c, vtx) == Digests(c.tx, vtx, MerkleVals)

GetHash(c, block) == Digests(c.blk, Header(block), HashVals)

\* CMainParams::CMainParams(): every state it can leave, one per value
\* BuildMerkleTree, GetHash, GetTime and GetRand can return.
CMainParams_ctor(c) ==
    IF c.abort THEN {c} ELSE
    LET txNew == GenesisTx("13/July/2014, with memory of the past, we look to the future. TDR")
        vtx == Append(c.obj.genesis.vtx, txNew)
        genesis(merkle) ==
            [vtx            |-> vtx,
             hashPrevBlock  |-> "0",
             hashMerkleRoot |-> merkle,
             nVersion       |-> 1,
             nTime          |-> 1405274442,
             nBits          |-> 486604799,
             nNonce         |-> 14385103]
        hashed(merkle, hash) ==
            [c.obj EXCEPT
                !.pchMessageStart = <<249, 190, 180, 217>>,
                !.vAlertPubKey = "04bf5a75ff0f823840ef512b08add20bb4275ff6e097f2830ad28645e28cb5ea4dc2cfd0972b94019ad46f331b45ef4ba679f2e6c87fd19c864365fadb4f8d2269",
                !.nDefaultPort = 9265,
                !.nRPCPort = 9266,
                !.bnProofOfWorkLimit = CBigNum(ShiftRight256(Not256(Uint256Zero), 32)),
                !.nSubsidyHalvingInterval = 788000,
                !.fStrictChainId = FALSE,
                !.nAuxpowChainId = 91,
                !.genesis = genesis(merkle),
                !.hashGenesisBlock = hash]
        asserted(merkle, hash) ==
            [hashed(merkle, hash) EXCEPT
                !.hMerkleAsserted = MainMerkleRoot,
                !.vSeeds = Append(@, [name |-> "bitmark.co", host |-> "seed.bitmark.co"]),
                !.base58Prefixes =
                    [@ EXCEPT ![PUBKEY_ADDRESS] = list_of(<<85>>),
                              ![SCRIPT_ADDRESS] = list_of(<<5>>),
                              ![SECRET_KEY]     = list_of(<<213>>),
                              ![EXT_PUBLIC_KEY] = list_of(<<4, 136, 178, 30>>),
                              ![EXT_SECRET_KEY] = list_of(<<4, 136, 173, 228>>)]]
        after(merkle, hash) ==
            IF hash = MainGenesisHash /\ merkle = MainMerkleRoot
                THEN {[obj   |-> [asserted(merkle, hash) EXCEPT
                                    !.vFixedSeeds = @ \o FixedSeedsFrom(hashed(merkle, hash).nDefaultPort, draws),
                                    !.hSeedNow = @ \o [i \in 1..ARRAYLEN(pnSeed) |-> draws[i][1]]],
                       tx    |-> Remember(c.tx, vtx, merkle),
                       blk   |-> Remember(c.blk, Header(genesis(merkle)), hash),
                       abort |-> FALSE] : draws \in SeedDraws}
                ELSE {[obj   |-> hashed(merkle, hash),
                       tx    |-> Remember(c.tx, vtx, merkle),
                       blk   |-> Remember(c.blk, Header(genesis(merkle)), hash),
                       abort |-> TRUE]}
    IN  UNION {UNION {after(merkle, hash) : hash \in GetHash(c, genesis(merkle))} :
               merkle \in BuildMerkleTree(c, vtx)}

\* CTestNetParams::CTestNetParams(), run after CMainParams(): every state
\* it can leave.
CTestNetParams_ctor(c) ==
    IF c.abort THEN {c} ELSE
    LET txNew == GenesisTx("Testing Testnet")
        vtx == [c.obj.genesis.vtx EXCEPT ![1] = txNew]
        genesis(merkle) ==
            [c.obj.genesis EXCEPT
                !.vtx = vtx,
                !.hashPrevBlock = "0",
                !.hashMerkleRoot = merkle,
                !.nTime = TestGenesisTime,
                !.nBits = 504365040,
                !.nNonce = 1291475]
        hashed(merkle, hash) ==
            [c.obj EXCEPT
                !.pchMessageStart = <<11, 17, 9, 7>>,
                !.vAlertPubKey = "0468770c9d451dd5d6d373ae6096d4ab0705c4ab66e55cc25c40788580039bd04b7672322b9bd26ce22a3ad95f490d7d188a905ce30246b2425eca8cc5102190d0",
                !.nDefaultPort = 19265,
                !.nRPCPort = 19266,
                !.bnProofOfWorkLimit = CBigNum(ShiftRight256(Not256(Uint256Zero), 8)),
                !.strDataDir = "testnet4",
                !.fStrictChainId = FALSE,
                !.nAuxpowChainId = 91,
                !.genesis = genesis(merkle),
                !.hashGenesisBlock = hash]
        asserted(merkle, hash) ==
            [hashed(merkle, hash) EXCEPT
                !.vFixedSeeds = << >>,
                !.hSeedNow = << >>,
                !.vSeeds = << [name |-> "bitmark.io", host |-> "us.bitmark.io"],
                              [name |-> "bitmark.co", host |-> "explorer.bitmark.co"] >>,
                !.base58Prefixes =
                    [@ EXCEPT ![PUBKEY_ADDRESS] = list_of(<<130>>),
                              ![SCRIPT_ADDRESS] = list_of(<<196>>),
                              ![SECRET_KEY]     = list_of(<<258>>),
                              ![EXT_PUBLIC_KEY] = list_of(<<4, 53, 135, 207>>),
                              ![EXT_SECRET_KEY] = list_of(<<4, 53, 131, 148>>)]]
        after(merkle, hash) ==
            [obj   |-> IF hash = TestGenesisHash
                          THEN asserted(merkle, hash) ELSE hashed(merkle, hash),
             tx    |-> Remember(c.tx, vtx, merkle),
             blk   |-> Remember(c.blk, Header(genesis(merkle)), hash),
             abort |-> hash # TestGenesisHash]
    IN  UNION {{after(merkle, hash) : hash \in GetHash(c, genesis(merkle))} :
               merkle \in BuildMerkleTree(c, vtx)}

\* A regression-test constructor that leaves the proof-of-work limit as
\* CTestNetParams() set it.
CRegTestParams_bnProofOfWorkLimit_inherited(inherited) == inherited

\* bnProofOfWorkLimit as CRegTestParams() assigns it, whatever value the
\* base constructors left.
CRegTestParams_bnProofOfWorkLimit(inherited) ==
    CBigNum(ShiftRight256(Not256(Uint256Zero), 1))

\* CRegTestParams::CRegTestParams(), run after CTestNetParams(): every state
\* it can leave.  The block is hashed with nNonce 713058; nNonce is set to 3
\* after that.
CRegTestParams_ctor(c) ==
    IF c.abort THEN {c} ELSE
    LET hashedBlock == [c.obj.genesis EXCEPT
                        !.nTime = 1405274400,
                        !.nBits = 545259519,
                        !.nNonce = 713058]
        hashed(hash) ==
            [c.obj EXCEPT
                !.pchMessageStart = <<250, 191, 181, 218>>,
                !.nSubsidyHalvingInterval = 150,
                !.bnProofOfWorkLimit = CRegTestParams_bnProofOfWorkLimit(@),
                !.hashGenesisBlock = hash,
                !.genesis = [hashedBlock EXCEPT !.nNonce = 3],
                !.nDefaultPort = 18444,
                !.strDataDir = "regtest",
                !.fStrictChainId = FALSE,
                !.nAuxpowChainId = 91]
        after(hash) ==
            [obj   |-> IF hash = RegTestGenesisHash
                          THEN [hashed(hash) EXCEPT !.vSeeds = << >>]
                          ELSE hashed(hash),
             tx    |-> c.tx,
             blk   |-> Remember(c.blk, Header(hashedBlock), hash),
             abort |-> hash # RegTestGenesisHash]
    IN  {after(hash) : hash \in GetHash(c, hashedBlock)}

\* The construction of an object of a derived class: the constructor of
\* the base class, then its own, on every state the base can leave.
CTestNetParams_new(c) ==
    UNION {CTestNetParams_ctor(base) : base \in CMainParams_ctor(c)}

CRegTestParams_new(c) ==
    UNION {CRegTestParams_ctor(base) : base \in CTestNetParams_new(c)}

\* The virtual functions, dispatched on the object's most derived class.
NetworkID(o) ==
    CASE ClassOf(o) = "CMainParams"    -> MAIN
      [] ClassOf(o) = "CTestNetParams" -> TESTNET
      [] ClassOf(o) = "CRegTestParams" -> REGTEST

RequireRPCPassword(o) == ClassOf(o) # "CRegTestParams"

GenesisBlock(o) == params[o].genesis

FixedSeeds(o) == params[o].vFixedSeeds

\* The accessors of CChainParams.
HashGenesisBlock(o) == params[o].hashGenesisBlock

ProofOfWorkLimit(o) == params[o].bnProofOfWorkLimit

SubsidyInterimInterval(o) == params[o].nSubsidyHalvingInterval \div 2

GetFork2Height(o) == params[o].nForkHeight2

\* A fork test that starts one block late.
OnFork2_late(o, blockHeight) == blockHeight > params[o].nForkHeight2

OnFork2(o, blockHeight) == blockHeight >= params[o].nForkHeight2

CEM_WindowLength(o, blockHeight) ==
    IF OnFork2(o, blockHeight) THEN 90 ELSE 365

CEM_MaxNativeBlockRewardReduction(o, blockHeight) ==
    IF OnFork2(o, blockHeight) THEN 80 ELSE 50

\* const CChainParams &Params(): the object pCurrentParams points to.
Params == pCurrentParams

(***************************************************************************)
(* Static initialisation.  pCurrentParams is initialised with a constant   *)
(* address before any constructor runs; the objects are then constructed   *)
(* in the order of their definitions.                                      *)
(***************************************************************************)
NoCall ==
    [op |-> "", fRegTest |-> FALSE, fTestNet |-> FALSE, network |-> NoNetwork,
     blockHeight |-> 0, before |-> "mainParams", retBool |-> FALSE,
     retHash |-> "", retWindow |-> 0, retReduction |-> 0]

\* A start with pCurrentParams pointing at the regression-test parameters.
Init_regTest ==
    /\ pc = "mainParams"
    /\ params = [o \in Objects |-> CChainParams_ctor]
    /\ pCurrentParams = "regTestParams"
    /\ txMemo = {}
    /\ hashMemo = {}
    /\ lastCall = NoCall
    /\ lastSelected = NoNetwork

Init ==
    /\ pc = "mainParams"
    /\ params = [o \in Objects |-> CChainParams_ctor]
    /\ pCurrentParams = "mainParams"
    /\ txMemo = {}
    /\ hashMemo = {}
    /\ lastCall = NoCall
    /\ lastSelected = NoNetwork

\* The end of a static object's construction: c is the state its
\* constructors left, next the position after it.  A failed assert ends the
\* process, and nothing of the object it was constructing is ever seen.
Constructed(o, c, next) ==
    /\ params' = IF c.abort THEN params
                 ELSE [params EXCEPT ![o] = [c.obj EXCEPT !.hConstructed = TRUE]]
    /\ txMemo' = IF c.abort THEN txMemo ELSE c.tx
    /\ hashMemo' = IF c.abort THEN hashMemo ELSE c.blk
    /\ pc' = IF c.abort THEN "aborted" ELSE next
    /\ UNCHANGED <<pCurrentParams, lastCall, lastSelected>>

\* static CMainParams mainParams;
Construct_mainParams ==
    /\ pc = "mainParams"
    /\ \E c \in CMainParams_ctor(
                    Context(CChainParams_ctor, txMemo, hashMemo)) :
        Constructed("mainParams", c, "testNetParams")

\* static CTestNetParams testNetParams;
Construct_testNetParams ==
    /\ pc = "testNetParams"
    /\ \E c \in CTestNetParams_new(
                    Context(CChainParams_ctor, txMemo, hashMemo)) :
        Constructed("testNetParams", c, "regTestParams")

\* static CRegTestParams regTestParams;
Construct_regTestParams ==
    /\ pc = "regTestParams"
    /\ \E c \in CRegTestParams_new(
                    Context(CChainParams_ctor, txMemo, hashMemo)) :
        Constructed("regTestParams", c, "main")

(***************************************************************************)
(* The process after static initialisation.                                *)
(***************************************************************************)
Network == MAIN..MAX_NETWORK_TYPES

\* SelectParams that takes TESTNET and REGTEST for each other.
SelectParams_swapped(network) ==
    /\ pCurrentParams' =
        CASE network = MAIN    -> "mainParams"
          [] network = TESTNET -> "regTestParams"
          [] network = REGTEST -> "testNetParams"
          [] OTHER             -> pCurrentParams
    /\ pc' = IF network \in {MAIN, TESTNET, REGTEST} THEN pc ELSE "aborted"
    /\ lastSelected' =
        IF network \in {MAIN, TESTNET, REGTEST} THEN network ELSE lastSelected
    /\ UNCHANGED <<params, txMemo, hashMemo>>

\* SelectParams that also switches on-demand mining off in the set it
\* selects.
SelectParams_configuring(network) ==
    /\ pCurrentParams' =
        CASE network = MAIN    -> "mainParams"
          [] network = TESTNET -> "testNetParams"
          [] network = REGTEST -> "regTestParams"
          [] OTHER             -> pCurrentParams
    /\ pc' = IF network \in {MAIN, TESTNET, REGTEST} THEN pc ELSE "aborted"
    /\ lastSelected' =
        IF network \in {MAIN, TESTNET, REGTEST} THEN network ELSE lastSelected
    /\ params' =
        IF network \in {MAIN, TESTNET, REGTEST}
            THEN [params EXCEPT ![pCurrentParams'].fMineBlocksOnDemand = FALSE]
            ELSE params
    /\ UNCHANGED <<txMemo, hashMemo>>

\* void SelectParams(CChainParams::Network network).  The default case fails
\* its assert: the process ends with pCurrentParams as it was.
SelectParams(network) ==
    /\ pCurrentParams' =
        CASE network = MAIN    -> "mainParams"
          [] network = TESTNET -> "testNetParams"
          [] network = REGTEST -> "regTestParams"
          [] OTHER             -> pCurrentParams
    /\ pc' = IF network \in {MAIN, TESTNET, REGTEST} THEN pc ELSE "aborted"
    /\ lastSelected' =
        IF network \in {MAIN, TESTNET, REGTEST} THEN network ELSE lastSelected
    /\ UNCHANGED <<params, txMemo, hashMemo>>

\* A caller of SelectParams, with any value of the enum.
Call_SelectParams ==
    /\ pc = "main"
    /\ \E network \in Network :
        /\ SelectParams(network)
        /\ lastCall' = [NoCall EXCEPT !.op = "SelectParams",
                                      !.network = network,
                                      !.before = pCurrentParams]

\* SelectParamsFromCommandLine that selects -regtest as TESTNET and -testnet
\* as REGTEST.
SelectParamsFromCommandLine_swapped ==
    /\ pc = "main"
    /\ \E fRegTest \in BOOLEAN, fTestNet \in BOOLEAN :
        IF fTestNet /\ fRegTest
            THEN /\ lastCall' = [NoCall EXCEPT
                                    !.op = "SelectParamsFromCommandLine",
                                    !.fRegTest = fRegTest,
                                    !.fTestNet = fTestNet,
                                    !.before = pCurrentParams,
                                    !.retBool = FALSE]
                 /\ UNCHANGED <<pc, params, pCurrentParams, txMemo, hashMemo,
                                lastSelected>>
            ELSE /\ SelectParams(IF fRegTest THEN TESTNET
                                 ELSE IF fTestNet THEN REGTEST ELSE MAIN)
                 /\ lastCall' = [NoCall EXCEPT
                                    !.op = "SelectParamsFromCommandLine",
                                    !.fRegTest = fRegTest,
                                    !.fTestNet = fTestNet,
                                    !.before = pCurrentParams,
                                    !.retBool = TRUE]

\* SelectParamsFromCommandLine that selects first and looks for the
\* conflicting flags afterwards.
SelectParamsFromCommandLine_lateCheck ==
    /\ pc = "main"
    /\ \E fRegTest \in BOOLEAN, fTestNet \in BOOLEAN :
        /\ SelectParams(IF fRegTest THEN REGTEST
                        ELSE IF fTestNet THEN TESTNET ELSE MAIN)
        /\ lastCall' = [NoCall EXCEPT
                            !.op = "SelectParamsFromCommandLine",
                            !.fRegTest = fRegTest,
                            !.fTestNet = fTestNet,
                            !.before = pCurrentParams,
                            !.retBool = ~(fTestNet /\ fRegTest)]

\* bool SelectParamsFromCommandLine().  fRegTest and fTestNet are what
\* GetBoolArg returns for -regtest and -testnet.
SelectParamsFromCommandLine ==
    /\ pc = "main"
    /\ \E fRegTest \in BOOLEAN, fTestNet \in BOOLEAN :
        IF fTestNet /\ fRegTest
            THEN /\ lastCall' = [NoCall EXCEPT
                                    !.op = "SelectParamsFromCommandLine",
                                    !.fRegTest = fRegTest,
                                    !.fTestNet = fTestNet,
                                    !.before = pCurrentParams,
                                    !.retBool = FALSE]
                 /\ UNCHANGED <<pc, params, pCurrentParams, txMemo, hashMemo,
                                lastSelected>>
            ELSE /\ SelectParams(IF fRegTest THEN REGTEST
                                 ELSE IF fTestNet THEN TESTNET ELSE MAIN)
                 /\ lastCall' = [NoCall EXCEPT
                                    !.op = "SelectParamsFromCommandLine",
                                    !.fRegTest = fRegTest,
                                    !.fTestNet = fTestNet,
                                    !.before = pCurrentParams,
                                    !.retBool = TRUE]

\* bool TestNet() and bool RegTest().
TestNet == NetworkID(Params) = TESTNET

RegTest == NetworkID(Params) = REGTEST

\* A reader: Params().NetworkID().
Call_NetworkID ==
    /\ pc = "main"
    /\ lastCall' = [NoCall EXCEPT !.op = "NetworkID",
                                  !.network = NetworkID(Params),
                                  !.before = pCurrentParams]
    /\ UNCHANGED <<pc, params, pCurrentParams, txMemo, hashMemo,
                   lastSelected>>

\* A reader that hashes the genesis block: Params().GenesisBlock().GetHash().
Call_GenesisBlock_GetHash ==
    /\ pc = "main"
    /\ \E hash \in Digests(hashMemo, Header(GenesisBlock(Params)), HashVals) :
        /\ hashMemo' = Remember(hashMemo, Header(GenesisBlock(Params)), hash)
        /\ lastCall' = [NoCall EXCEPT !.op = "GetHash",
                                      !.network = NetworkID(Params),
                                      !.before = pCurrentParams,
                                      !.retHash = hash]
    /\ UNCHANGED <<pc, params, pCurrentParams, txMemo, lastSelected>>

Heights == (0 - MaxHeight)..MaxHeight

\* A reader of the fork schedule: Params().OnFork2(h),
\* Params().CEM_WindowLength(h), Params().CEM_MaxNativeBlockRewardReduction(h).
Call_OnFork2 ==
    /\ pc = "main"
    /\ \E blockHeight \in Heights :
        lastCall' = [NoCall EXCEPT
                        !.op = "OnFork2",
                        !.network = NetworkID(Params),
                        !.before = pCurrentParams,
                        !.blockHeight = blockHeight,
                        !.retBool = OnFork2(Params, blockHeight),
                        !.retWindow = CEM_WindowLength(Params, blockHeight),
                        !.retReduction =
                            CEM_MaxNativeBlockRewardReduction(Params, blockHeight)]
    /\ UNCHANGED <<pc, params, pCurrentParams, txMemo, hashMemo,
                   lastSelected>>

Next ==
    \/ Construct_mainParams
    \/ Construct_testNetParams
    \/ Construct_regTestParams
    \/ Call_SelectParams
    \/ SelectParamsFromCommandLine
    \/ Call_NetworkID
    \/ Call_GenesisBlock_GetHash
    \/ Call_OnFork2

Spec == Init /\ [][Next]_vars

(***************************************************************************)
(* Properties.                                                             *)
(***************************************************************************)
\* The literal each network's constructor asserts its genesis hash against.
ExpectedGenesisHash(network) ==
    CASE network = MAIN    -> MainGenesisHash
      [] network = TESTNET -> TestGenesisHash
      [] network = REGTEST -> RegTestGenesisHash

AllConstructed == \A o \in Objects : params[o].hConstructed

\* C1: for every constructed parameter set, the stored HashGenesisBlock()
\* is the network's expected hash literal, and hashing the block that
\* GenesisBlock() returns can yield nothing but the stored hash; a reader
\* that hashes the active set's genesis block gets the stored hash.
C1_GenesisBlockHashesToStoredHash ==
    /\ \A o \in Objects :
        params[o].hConstructed =>
            /\ HashGenesisBlock(o) = ExpectedGenesisHash(NetworkID(o))
            /\ Digests(hashMemo, Header(GenesisBlock(o)), HashVals)
                    = {HashGenesisBlock(o)}
    /\ lastCall.op = "GetHash" =>
        /\ lastCall.retHash = HashGenesisBlock(Params)
        /\ lastCall.retHash = ExpectedGenesisHash(NetworkID(Params))

\* C2: SelectParamsFromCommandLine fails on (regtest, testnet) = (true, true),
\* and otherwise succeeds with Main for (false, false), Regression for
\* (true, false) and Test for (false, true), whatever was active before.
C2_FlagsToNetwork ==
    lastCall.op = "SelectParamsFromCommandLine" =>
        /\ (lastCall.fRegTest /\ lastCall.fTestNet) => ~lastCall.retBool
        /\ (~lastCall.fRegTest /\ ~lastCall.fTestNet) =>
                lastCall.retBool /\ NetworkID(Params) = MAIN
        /\ (lastCall.fRegTest /\ ~lastCall.fTestNet) =>
                lastCall.retBool /\ NetworkID(Params) = REGTEST
        /\ (~lastCall.fRegTest /\ lastCall.fTestNet) =>
                lastCall.retBool /\ NetworkID(Params) = TESTNET

\* -regtest alone, given while the test network was active, selects the
\* regression-test network.
C2_Witness ==
    /\ lastCall.op = "SelectParamsFromCommandLine"
    /\ lastCall.fRegTest /\ ~lastCall.fTestNet
    /\ lastCall.before = "testNetParams"
    /\ lastCall.retBool
    /\ NetworkID(Params) = REGTEST

\* C3: with both flags true SelectParamsFromCommandLine returns false and
\* the active parameter set is the one that was active before the call.
C3_ConflictLeavesActive ==
    (/\ lastCall.op = "SelectParamsFromCommandLine"
     /\ lastCall.fRegTest /\ lastCall.fTestNet) =>
        /\ ~lastCall.retBool
        /\ pCurrentParams = lastCall.before

\* Both flags given while the regression-test network was active.
C3_Witness ==
    /\ lastCall.op = "SelectParamsFromCommandLine"
    /\ lastCall.fRegTest /\ lastCall.fTestNet
    /\ lastCall.before = "regTestParams"
    /\ lastSelected = REGTEST

\* C4: from the completion of SelectParams(n) to the next one, through any
\* number of reads, Params().NetworkID() is n.
C4_SelectedStaysActive ==
    lastSelected # NoNetwork =>
        /\ NetworkID(Params) = lastSelected
        /\ lastCall.op = "NetworkID" => lastCall.network = lastSelected

\* A read of the network id after SelectParams(TESTNET).
C4_Witness ==
    /\ lastCall.op = "NetworkID"
    /\ lastSelected = TESTNET
    /\ lastCall.network = TESTNET
    /\ TestNet /\ ~RegTest

\* C5: every constructed parameter set has a genesis Merkle root that its
\* constructors compared, by an assert, with a Merkle root literal.
C5_MerkleRootAsserted ==
    \A o \in Objects :
        params[o].hConstructed =>
            params[o].genesis.hashMerkleRoot = params[o].hMerkleAsserted

\* C6: pCurrentParams always points at one of the three parameter objects,
\* a constructed one once static initialisation is over, and at mainParams
\* until the first SelectParams call completes.
C6_ExactlyOneActive ==
    /\ pCurrentParams \in Objects
    /\ (pc = "main" \/ lastCall.op # "") => params[pCurrentParams].hConstructed
    /\ lastSelected = NoNetwork => pCurrentParams = "mainParams"

\* SelectParams called with MAX_NETWORK_TYPES while the test network was
\* active.
C6_Witness ==
    /\ lastCall.op = "SelectParams"
    /\ lastCall.network = MAX_NETWORK_TYPES
    /\ lastCall.before = "testNetParams"
    /\ pCurrentParams = "testNetParams"

\* C7: for every parameter set and height, OnFork2 is false below
\* GetFork2Height() and true from it on; the window length is 365 exactly
\* when OnFork2 is false and 90 exactly when it is true, the maximum reward
\* reduction 50 and 80 likewise.
C7_Fork2Boundary ==
    /\ \A o \in Objects, h \in Heights :
        /\ h < GetFork2Height(o) => ~OnFork2(o, h)
        /\ h >= GetFork2Height(o) => OnFork2(o, h)
        /\ CEM_WindowLength(o, h) = 365 <=> ~OnFork2(o, h)
        /\ CEM_WindowLength(o, h) = 90 <=> OnFork2(o, h)
        /\ CEM_MaxNativeBlockRewardReduction(o, h) = 50 <=> ~OnFork2(o, h)
        /\ CEM_MaxNativeBlockRewardReduction(o, h) = 80 <=> OnFork2(o, h)
    /\ lastCall.op = "OnFork2" =>
        /\ lastCall.retBool <=> lastCall.blockHeight >= GetFork2Height(Params)
        /\ lastCall.retWindow = IF lastCall.retBool THEN 90 ELSE 365
        /\ lastCall.retReduction = IF lastCall.retBool THEN 80 ELSE 50

\* A query at the last height before the fork.
C7_Witness ==
    /\ lastCall.op = "OnFork2"
    /\ lastCall.blockHeight = GetFork2Height(Params) - 1
    /\ ~lastCall.retBool
    /\ lastCall.retWindow = 365
    /\ lastCall.retReduction = 50

\* C8: every fixed seed record is stamped between two weeks and one week
\* before the clock reading it was made from, and mainParams holds one
\* record per entry of pnSeed.
C8_SeedTimesInRange ==
    /\ \A o \in Objects :
        /\ Len(params[o].hSeedNow) = Len(FixedSeeds(o))
        /\ \A i \in 1..Len(FixedSeeds(o)) :
            /\ params[o].hSeedNow[i] - 2 * 604800 <= FixedSeeds(o)[i].nTime
            /\ FixedSeeds(o)[i].nTime <= params[o].hSeedNow[i] - 604800
    /\ params["mainParams"].hConstructed =>
            Len(FixedSeeds("mainParams")) = ARRAYLEN(pnSeed)

\* mainParams constructed with the largest and the smallest random value.
C8_Witness ==
    /\ params["mainParams"].hConstructed
    /\ \E i, j \in 1..Len(FixedSeeds("mainParams")) :
        /\ FixedSeeds("mainParams")[i].nTime =
                params["mainParams"].hSeedNow[i] - 2 * 604800 + 1
        /\ FixedSeeds("mainParams")[j].nTime =
                params["mainParams"].hSeedNow[j] - 604800

\* C9: the regression-test proof-of-work limit is larger than the test
\* network's, which is larger than the main network's.
C9_PowLimitsOrdered ==
    /\ (params["mainParams"].hConstructed /\ params["testNetParams"].hConstructed) =>
            Less256(ProofOfWorkLimit("mainParams"),
                    ProofOfWorkLimit("testNetParams"))
    /\ (params["testNetParams"].hConstructed /\ params["regTestParams"].hConstructed) =>
            Less256(ProofOfWorkLimit("testNetParams"),
                    ProofOfWorkLimit("regTestParams"))

\* All three sets constructed, each with the limit its own constructor set.
C9_Witness ==
    /\ AllConstructed
    /\ ProofOfWorkLimit("mainParams") = ShiftRight256(Not256(Uint256Zero), 32)
    /\ ProofOfWorkLimit("testNetParams") = ShiftRight256(Not256(Uint256Zero), 8)
    /\ ProofOfWorkLimit("regTestParams") = ShiftRight256(Not256(Uint256Zero), 1)

\* C10: once static initialisation is over no step changes any field of any
\* parameter set.
C10_ParamsImmutable == [][pc = "main" => params' = params]_vars

\* The regression-test parameters read after having been selected by the
\* command line.
C10_Witness ==
    /\ lastCall.op = "GetHash"
    /\ lastSelected = REGTEST
    /\ lastCall.before = "regTestParams"
    /\ AllConstructed

====
